---------------------------- MODULE Spec2Model ----------------------------
(***************************************************************************)
(* Classical post-processing of Simon's algorithm (simon_qiskit.py):       *)
(* GF(2) elimination, nullspace extraction, the validating solver and the  *)
(* retry loop of run_test_case.                                            *)
(*                                                                         *)
(* A measured bitstring such as '0110' is the sequence <<0,1,1,0>>; the    *)
(* code's 0-based row and column indices are 1-based here.                 *)
(***************************************************************************)
EXTENDS Integers, Sequences, FiniteSets

\* ------------------------------------------------------------------ bounds
\* widest problem and longest list handed to the solvers on their own
MaxN == 3
MaxLen == 3
\* widest problem, most keys per batch and largest budget of run_test_case
MaxWidth == 2
MaxBatch == 2
MaxRetries == 2

\* the value None of the source
None == -1

VARIABLES
  n,            \* problem bit-width
  meas,         \* measured_bitstrings handed to the solvers
  cli,          \* result of check_linear_independence(meas, n)
  raw,          \* result of solve_for_s_from_measurements(n, meas)
  enh,          \* result of solve_for_s_enhanced(n, meas)
  s_int,        \* run_test_case: the hidden vector
  add_noise,    \* run_test_case: noise toggle
  max_retries,  \* run_test_case: attempts budget
  limit_measurements, \* run_test_case: truncation of the batch (0 = None)
  attempt,      \* run_test_case: loop index
  pc,           \* run_test_case: position in the loop body
  counts,       \* run_test_case: keys of the counts dict, in dict order
  s_found,      \* run_test_case: last recovered value (None if none)
  status,       \* run_test_case: last status of solve_for_s_enhanced
  result,       \* run_test_case: return value ("none" while running)
  runs,         \* number of run_simon invocations so far
  onlyZero      \* every batch handed to the solver so far held only 0...0

solveVars == <<n, meas, cli, raw, enh>>
runVars == <<s_int, add_noise, max_retries, limit_measurements, attempt, pc,
             counts, s_found, status, result, runs, onlyZero>>
vars == <<n, meas, cli, raw, enh, s_int, add_noise, max_retries,
          limit_measurements, attempt, pc, counts, s_found, status, result,
          runs, onlyZero>>

\* ------------------------------------------------------------ bit vectors
Bit == {0, 1}

BitVectors(w) == [1..w -> Bit]

ZeroVector(w) == [j \in 1..w |-> 0]

Min(S) == CHOOSE x \in S : \A y \in S : x <= y

RowXor(x, y) == [j \in 1..Len(x) |-> (x[j] + y[j]) % 2]

int_to_bits(x, w) == [i \in 1..w |-> (x \div (2 ^ (w - i))) % 2]

RECURSIVE bits_to_int(_)
bits_to_int(bits) ==
  IF bits = <<>> THEN 0
  ELSE 2 * bits_to_int(SubSeq(bits, 1, Len(bits) - 1)) + (bits[Len(bits)] % 2)

\* k[::-1]
Reverse(k) == [j \in 1..Len(k) |-> k[Len(k) + 1 - j]]

\* ------------------------------------------------- GF(2) row reduction
\* first row >= rank with a 1 in column col (rows rank+1..r, 1-based)
PivotRows(A, col, rank) == {row \in (rank + 1)..Len(A) : A[row][col] = 1}

SwapRows(A, i, j) == [A EXCEPT ![i] = A[j], ![j] = A[i]]

\* A[row] ^= A[rank] for every row below the pivot row with a 1 in col
EliminateBelow(A, col, p) ==
  [row \in 1..Len(A) |->
     IF row > p /\ A[row][col] = 1 THEN RowXor(A[row], A[p]) ELSE A[row]]

\* F applied to the value of x, with x evaluated once
With(x, F(_)) == CHOOSE r \in {F(v) : v \in {x}} : TRUE

\* one pass of the loop body for a column that has a pivot: swap the pivot
\* row into place, record the column, eliminate below, rank += 1
PivotStep(st, col, pivot) ==
  [A |-> EliminateBelow(SwapRows(st.A, pivot, st.rank + 1), col, st.rank + 1),
   rank |-> st.rank + 1,
   pivot_cols |-> Append(st.pivot_cols, col)]

\* the loop "for col in range(ncols)" from column col on; st holds A, rank
\* and pivot_cols; the loop breaks once rank == r
RECURSIVE Eliminate(_, _, _)
Eliminate(st, col, ncols) ==
  IF col > ncols \/ st.rank = Len(st.A) THEN st
  ELSE With(PivotRows(st.A, col, st.rank),
            LAMBDA cand :
              IF cand = {} THEN Eliminate(st, col + 1, ncols)
              ELSE With(PivotStep(st, col, Min(cand)),
                        LAMBDA next : Eliminate(next, col + 1, ncols)))

RowReduce(M, ncols) ==
  With([A |-> M, rank |-> 0, pivot_cols |-> <<>>],
       LAMBDA st : Eliminate(st, 1, ncols))

\* ------------------------------------------------------ nullspace solver
FreeCols(pivot_cols, w) ==
  {col \in 1..w : \A k \in 1..Len(pivot_cols) : pivot_cols[k] # col}

\* mutant of Rhs: the sum starts one column too far to the right
Rhs_OffByOne(row, s, pivot_col, w) ==
  Cardinality({j \in (pivot_col + 2)..w : row[j] = 1 /\ s[j] = 1}) % 2

\* rhs ^= (row[j] & s[j]) for j in range(pivot_col+1, n)
Rhs(row, s, pivot_col, w) ==
  Cardinality({j \in (pivot_col + 1)..w : row[j] = 1 /\ s[j] = 1}) % 2

\* one pass of the back-substitution loop for row i: find the pivot column
\* of the row and set s[pivot_col] = rhs
BackStep(A, s, i, w) ==
  LET row == A[i]
      ones == {j \in 1..w : row[j] = 1}
  IN IF ones = {} THEN s
     ELSE [s EXCEPT ![Min(ones)] = Rhs(row, s, Min(ones), w)]

\* "for i in reversed(range(rank))": rows i, i-1, ..., 1
RECURSIVE BackSubstitute(_, _, _, _)
BackSubstitute(A, s, i, w) ==
  IF i = 0 THEN s
  ELSE With(BackStep(A, s, i, w),
            LAMBDA next : BackSubstitute(A, next, i - 1, w))

\* the part of solve_for_s_from_measurements after the row reduction st
Nullspace(st, w) ==
  LET free_cols == FreeCols(st.pivot_cols, w)
  IN IF st.rank = w THEN 0
     ELSE IF free_cols = {} THEN 0
     ELSE LET free_choice == Min(free_cols)
              s0 == [j \in 1..w |-> IF j = free_choice THEN 1 ELSE 0]
          IN bits_to_int(BackSubstitute(st.A, s0, st.rank, w))

solve_for_s_from_measurements(w, M) ==
  IF Len(M) = 0 THEN None
  ELSE With(RowReduce(M, w), LAMBDA st : Nullspace(st, w))

\* ------------------------------------------------------------ validator
\* mutant of ScannedCols: the columns left over by the rows, n - r
ScannedCols_Leftover(w, r) == IF w > r THEN w - r ELSE 0

\* for col in range(min(n, r)): the number of columns the validator scans
ScannedCols(w, r) == Min({w, r})

check_linear_independence(vectors, w) ==
  IF Len(vectors) = 0 THEN [ok |-> FALSE, rank |-> 0]
  ELSE With(RowReduce(vectors, ScannedCols(w, Len(vectors))),
            LAMBDA st : [ok |-> st.rank >= w - 1, rank |-> st.rank])

\* mutant of useful_measurements: the all-zero vectors are kept
useful_measurements_Unfiltered(w, M) == M

\* [m for m in measured_bitstrings if m != '0'*n]
useful_measurements(w, M) == SelectSeq(M, LAMBDA m : m # ZeroVector(w))

\* the part of solve_for_s_enhanced after the linear independence check c
Verdict(w, useful, c) ==
  IF ~c.ok /\ c.rank < w - 1
    THEN [s |-> None, status |-> "Insufficient independent vectors",
          rank |-> c.rank, need |-> w - 1]
  ELSE [s |-> solve_for_s_from_measurements(w, useful),
        status |-> "Success", rank |-> c.rank, need |-> w - 1]

solve_for_s_enhanced(w, M) ==
  IF Len(M) = 0
    THEN [s |-> None, status |-> "No measurements", rank |-> 0, need |-> 0]
  ELSE With(useful_measurements(w, M),
            LAMBDA useful :
              IF Len(useful) = 0
                THEN [s |-> None, status |-> "All measurements uninformative",
                      rank |-> 0, need |-> 0]
              ELSE With(check_linear_independence(useful, w),
                        LAMBDA c : Verdict(w, useful, c)))

\* ------------------------------------------------ the solvers on a list
NoRun ==
  /\ s_int = 0 /\ add_noise = FALSE /\ max_retries = 0
  /\ limit_measurements = 0 /\ attempt = 0 /\ pc = "idle" /\ counts = <<>>
  /\ s_found = None /\ status = "" /\ result = "none" /\ runs = 0
  /\ onlyZero = TRUE

Applied(w, M) ==
  /\ cli' = check_linear_independence(M, w)
  /\ raw' = solve_for_s_from_measurements(w, M)
  /\ enh' = solve_for_s_enhanced(w, M)

InitSolve ==
  /\ n \in 1..MaxN
  /\ meas = <<>>
  /\ cli = check_linear_independence(<<>>, n)
  /\ raw = solve_for_s_from_measurements(n, <<>>)
  /\ enh = solve_for_s_enhanced(n, <<>>)
  /\ NoRun

\* one more measured string is appended and the three functions are applied
Measure(v) ==
  /\ Len(meas) < MaxLen
  /\ meas' = Append(meas, v)
  /\ Applied(n, meas')
  /\ UNCHANGED <<n, runVars>>

NextSolve == \E v \in BitVectors(n) : Measure(v)

SpecSolve == InitSolve /\ [][NextSolve]_vars


\* --------------------------------------- linear algebra of the claims
\* y . s (mod 2)
Dot(y, s) == Cardinality({j \in 1..Len(y) : y[j] = 1 /\ s[j] = 1}) % 2

\* the row space of M: every XOR of a subset of its rows
RECURSIVE Span(_, _)
Span(M, w) ==
  IF M = <<>> THEN {ZeroVector(w)}
  ELSE LET S == Span(Tail(M), w)
       IN S \cup {RowXor(x, Head(M)) : x \in S}

\* dimension of the row space over GF(2)
GF2Rank(M, w) == CHOOSE k \in 0..w : 2 ^ k = Cardinality(Span(M, w))

Range(M) == {M[i] : i \in 1..Len(M)}

AllZero(w, M) == \A i \in 1..Len(M) : M[i] = ZeroVector(w)


\* ------------------------------------------------- oracle and noise
\* sequences of 1..k distinct elements of S
DistinctSeqs(S, k) ==
  {q \in UNION {[1..m -> S] : m \in 1..k} :
     \A i, j \in 1..Len(q) : i # j => q[i] # q[j]}

\* run_simon: the keys of the counts dict the simulator returns. Qubit 0 is
\* the last character of a key; the measured y (the key reversed) satisfies
\* y . s = 0 (mod 2). At most MaxBatch distinct keys are kept.
run_simon(w, s) ==
  DistinctSeqs({k \in BitVectors(w) : Dot(Reverse(k), int_to_bits(s, w)) = 0},
               MaxBatch)

\* bits[flip_pos] = '1' if bits[flip_pos] == '0' else '0'
FlipBit(bitstring, flip_pos) ==
  [bitstring EXCEPT ![flip_pos] = 1 - bitstring[flip_pos]]

\* noisy_counts[key] = noisy_counts.get(key, 0) + count: a new key goes to
\* the end of the dict, a key already present keeps its place
DictAdd(keys, key) ==
  IF \E i \in 1..Len(keys) : keys[i] = key THEN keys ELSE Append(keys, key)

\* add_measurement_noise: flips[i] = 0 passes key i through unchanged,
\* flips[i] = p flips its bit p (random.random() and random.randint)
RECURSIVE NoisyKeys(_, _, _, _)
NoisyKeys(keys, flips, i, noisy) ==
  IF i > Len(keys) THEN noisy
  ELSE With(DictAdd(noisy, IF flips[i] = 0 THEN keys[i]
                           ELSE FlipBit(keys[i], flips[i])),
            LAMBDA next : NoisyKeys(keys, flips, i + 1, next))

add_measurement_noise(keys, flips) == NoisyKeys(keys, flips, 1, <<>>)

\* measured.append(k[::-1]) for every key, then measured[:limit_measurements]
Measured(keys, limit) ==
  LET all == [i \in 1..Len(keys) |-> Reverse(keys[i])]
  IN IF limit # 0 THEN SubSeq(all, 1, Min({limit, Len(all)})) ELSE all

\* ------------------------------------------------------ run_test_case
\* mutant of LoopContinues: one iteration too many
LoopContinues_OffByOne(a, budget) == a <= budget

\* for attempt in range(max_retries)
LoopContinues(a, budget) == a < budget

\* mutant of Verified: any recovered value is accepted
Verified_Unchecked(found, s) == found # None

\* if s_found == s_int
Verified(found, s) == found = s

\* mutant of RetryOnMismatch: a mismatch never continues the loop
RetryOnMismatch_Never(noise) == FALSE

\* if add_noise: ... continue (after a verification mismatch)
RetryOnMismatch(noise) == noise

\* mutant of RetriesLeft: the last retry is given up
RetriesLeft_OffByOne(a, budget) == a < budget - 2

\* if attempt < max_retries - 1: continue (after a failed validation)
RetriesLeft(a, budget) == a < budget - 1

InitRun ==
  /\ n \in 1..MaxWidth
  /\ s_int \in 0..(2 ^ n - 1)
  /\ add_noise \in BOOLEAN
  /\ max_retries \in 0..MaxRetries
  /\ limit_measurements \in 0..(MaxBatch - 1)
  /\ attempt = 0
  /\ pc = "loop"
  /\ counts = <<>>
  /\ meas = <<>>
  /\ s_found = None
  /\ status = ""
  /\ result = "none"
  /\ runs = 0
  /\ onlyZero = TRUE
  /\ cli = check_linear_independence(<<>>, n)
  /\ raw = solve_for_s_from_measurements(n, <<>>)
  /\ enh = solve_for_s_enhanced(n, <<>>)

config == <<n, s_int, add_noise, max_retries, limit_measurements>>

\* counts, circ = run_simon(n, s_int, shots=shots)
RunSimon ==
  /\ pc = "loop"
  /\ LoopContinues(attempt, max_retries)
  /\ counts' \in run_simon(n, s_int)
  /\ runs' = runs + 1
  /\ pc' = IF add_noise THEN "noise" ELSE "solve"
  /\ UNCHANGED <<config, attempt, meas, cli, raw, enh, s_found, status,
                 result, onlyZero>>

\* the loop is over: return False
LoopExit ==
  /\ pc = "loop"
  /\ ~LoopContinues(attempt, max_retries)
  /\ result' = "False"
  /\ pc' = "done"
  /\ UNCHANGED <<config, attempt, counts, meas, cli, raw, enh, s_found,
                 status, runs, onlyZero>>

\* counts = add_measurement_noise(counts, noise_prob=0.4)
AddNoise ==
  /\ pc = "noise"
  /\ \E flips \in [1..Len(counts) -> 0..n] :
       counts' = add_measurement_noise(counts, flips)
  /\ pc' = "solve"
  /\ UNCHANGED <<config, attempt, meas, cli, raw, enh, s_found, status,
                 result, runs, onlyZero>>

\* what the rest of the loop body does with the solver's answer e in
\* iteration a: return True, return False, or continue
Outcome(e, s, noise, a, budget) ==
  IF e.s # None
    THEN IF Verified(e.s, s) THEN "True"
         ELSE IF RetryOnMismatch(noise) THEN "continue"
         ELSE "False"
  ELSE IF RetriesLeft(a, budget) THEN "continue"
       ELSE "False"

\* extract the measurements, solve, verify, and return or continue.
\* On continue the locals counts and measured are dead (both are rebuilt at
\* the top of the next iteration) and are cleared.
SolveAndVerify ==
  /\ pc = "solve"
  /\ \E measured \in {Measured(counts, limit_measurements)} :
     \E e \in {solve_for_s_enhanced(n, measured)} :
     \E o \in {Outcome(e, s_int, add_noise, attempt, max_retries)} :
        /\ s_found' = e.s
        /\ status' = e.status
        /\ onlyZero' = (onlyZero /\ AllZero(n, measured))
        /\ result' = IF o = "continue" THEN result ELSE o
        /\ pc' = IF o = "continue" THEN "loop" ELSE "done"
        /\ attempt' = IF o = "continue" THEN attempt + 1 ELSE attempt
        /\ meas' = IF o = "continue" THEN <<>> ELSE measured
        /\ counts' = IF o = "continue" THEN <<>> ELSE counts
  /\ UNCHANGED <<config, cli, raw, enh, runs>>

NextRun == RunSimon \/ LoopExit \/ AddNoise \/ SolveAndVerify

SpecRun == InitRun /\ [][NextRun]_vars

\* ------------------------------------------------------------- claims
Insufficient == "Insufficient independent vectors"

\* meas is n-1 independent non-zero vectors orthogonal to s, with any
\* duplicates of them and any all-zero vectors
RoundTripInput(s) ==
  LET distinct == Range(meas) \ {ZeroVector(n)}
  IN /\ Cardinality(distinct) = n - 1
     /\ GF2Rank(useful_measurements(n, meas), n) = n - 1
     /\ \A y \in distinct : Dot(y, s) = 0

\* C1: round trip. For n >= 2 and a hidden vector s # 0 (the cases in which
\* n-1 independent constraints determine s), a list made of exactly n-1
\* independent non-zero vectors orthogonal to s, their duplicates and zero
\* vectors makes solve_for_s_enhanced return Success with the value s.
C1_RoundTrip ==
  \A s \in BitVectors(n) :
    (n >= 2 /\ s # ZeroVector(n) /\ RoundTripInput(s))
      => (enh.status = "Success" /\ enh.s = bits_to_int(s))

\* C2: insufficiency verdict. With at least one non-zero vector in the list,
\* solve_for_s_enhanced fails with Insufficient exactly when the GF(2) rank of
\* the non-zero vectors is below n-1, reports that rank, and otherwise
\* returns Success.
C2_InsufficiencyVerdict ==
  ~AllZero(n, meas) =>
    LET r == GF2Rank(useful_measurements(n, meas), n)
    IN /\ (enh.status = Insufficient) <=> (r < n - 1)
       /\ (enh.status = Insufficient) => (enh.rank = r /\ enh.need = n - 1)
       /\ (enh.status # Insufficient) => (enh.status = "Success" /\ enh.s # None)

\* C4: nullspace solver. For a non-empty list of rows the value returned by
\* solve_for_s_from_measurements is orthogonal (mod 2) to every input row, and
\* it is non-zero exactly when the GF(2) rank of the rows is below n.
C4_Nullspace ==
  Len(meas) >= 1 =>
    /\ raw \in 0..(2 ^ n - 1)
    /\ \A y \in Range(meas) : Dot(y, int_to_bits(raw, n)) = 0
    /\ (raw # 0) <=> (GF2Rank(meas, n) < n)

\* C4 witness: three rows of width 3 spanning a plane, solved to a non-zero s
C4_Witness ==
  /\ n = 3 /\ Len(meas) = 3 /\ Cardinality(Range(meas)) = 3
  /\ GF2Rank(meas, n) = 2 /\ raw # 0 /\ raw # None

\* C6: trivial case. An empty list or a list of all-zero vectors gives no
\* recovered value (with the No measurements / uninformative reason) or the
\* value zero, never a non-zero vector.
C6_TrivialCase ==
  AllZero(n, meas) =>
    \/ /\ enh.s = None
       /\ enh.status \in {"No measurements", "All measurements uninformative"}
    \/ enh.s = 0

\* C6 witness: several all-zero measurements were given and rejected
C6_Witness ==
  /\ Len(meas) >= 2 /\ AllZero(n, meas)
  /\ enh.status = "All measurements uninformative"

\* C7: duplicates carry no information. Appending a copy of a vector already
\* in a non-empty list changes neither the rank check_linear_independence
\* computes nor the verdict of the validator.
C7_DuplicateKeepsRank ==
  [][(Len(meas) >= 1 /\ Len(meas') = Len(meas) + 1
        /\ meas'[Len(meas')] \in Range(meas))
       => (cli'.rank = cli.rank /\ cli'.ok = cli.ok /\ enh'.status = enh.status)]_vars

\* C8: rank monotonicity. Appending any vector to a non-empty list never
\* lowers the rank check_linear_independence computes.
C8_RankMonotone ==
  [][(Len(meas) >= 1 /\ Len(meas') = Len(meas) + 1)
       => cli'.rank >= cli.rank]_vars

\* C8 witness: a vector was appended to a non-empty list and the rank is 2
C8_Witness == Len(meas) >= 2 /\ cli.rank = 2


\* the verdict of an attempt that recovered a value other than the hidden one
Mismatch(found, s) == found # None /\ found # s

\* n=4, s=1101: the clean set {0010, 0111, 1001}, and the set with 0010
\* corrupted to 0011, as the solver answers them
CleanInstance ==
  solve_for_s_enhanced(4, << <<0,0,1,0>>, <<0,1,1,1>>, <<1,0,0,1>> >>)

CorruptedInstance ==
  solve_for_s_enhanced(4, << <<0,0,1,1>>, <<0,1,1,1>>, <<1,0,0,1>> >>)

\* C3: no wrong answer is accepted. run_test_case returns True only in an
\* attempt whose recovered value equals s_int; a batch that passes the rank
\* check and solves to another value is never reported as success. Instance
\* n=4, s=1101: {0010, 0111, 1001} recovers 1101, and with 0010 corrupted to
\* 0011 the outcome is a rank shortfall or a value other than 1101.
C3_NoWrongAnswer ==
  /\ result = "True" => (status = "Success" /\ s_found = s_int)
  /\ (pc = "done" /\ Mismatch(s_found, s_int)) => result = "False"
  /\ CleanInstance.s = 13
  /\ CorruptedInstance.status = Insufficient \/ CorruptedInstance.s # 13

\* C3 witness: a noisy run that succeeded on a retry with a non-zero s
C3_Witness ==
  /\ pc = "done" /\ result = "True" /\ add_noise /\ attempt >= 1
  /\ s_found = s_int /\ s_int # 0

\* C5: exhaustion. When every batch handed to the solver holds only the
\* all-zero vector, run_test_case with max_retries = k >= 1 never recovers a
\* value, never reports success, and ends with False after exactly k
\* run_simon invocations.
C5_Exhaustion ==
  (onlyZero /\ max_retries >= 1) =>
    /\ s_found = None
    /\ result # "True"
    /\ runs <= max_retries
    /\ pc = "done" => (result = "False" /\ runs = max_retries
                       /\ status = "All measurements uninformative")

\* C5 witness: the budget of several attempts was used up on zero batches
C5_Witness ==
  /\ pc = "done" /\ onlyZero /\ max_retries >= 2 /\ runs = max_retries
  /\ result = "False"

Stage == CASE pc = "loop" -> 3 [] pc = "noise" -> 2 [] pc = "solve" -> 1
           [] OTHER -> 0

\* what is left to do: iterations left, then the position in the iteration
Variant == 3 * (max_retries - attempt) + Stage

\* C10: bounded retry loop. For every max_retries >= 0 run_test_case reaches
\* a terminal outcome (True or False) after at most max_retries run_simon
\* invocations, and invokes run_simon no more once it has returned. It
\* terminates because it is never stuck before it has returned and every
\* step lowers Variant, which is never negative.
C10_BoundedRetries ==
  /\ [](runs <= max_retries)
  /\ [](pc = "done" => (result \in {"True", "False"} /\ ~ENABLED NextRun))
  /\ [](pc # "done" => (result = "none" /\ ENABLED NextRun))
  /\ [](Variant >= 0)
  /\ [][Variant' < Variant]_vars

\* C10 witness: a run that used its whole budget of several attempts
C10_Witness == pc = "done" /\ max_retries >= 2 /\ runs = max_retries

=============================================================================
